---- MODULE Spec2Model ----
(***************************************************************************)
(* Instagram lead bot (src/main.py, src/utils/google_sheet.py).            *)
(*                                                                         *)
(* The model follows the Flask process: every POST /webhook runs webhook() *)
(* in a thread of its own, the daemon thread _cleanup_loop sweeps the      *)
(* module-level dictionary user_state, and _state_lock guards the blocks   *)
(* written "with _state_lock".  One step of a thread is one lock           *)
(* acquisition, one critical section, or one network call.                 *)
(***************************************************************************)
EXTENDS Integers, Sequences, FiniteSets, TLC

\* ------------------------------------------------------------------ bounds
MaxDeliveries == 2      \* webhook POSTs received in one behaviour
MaxInFlight == 2        \* webhook threads running at the same time
MaxTime == 601          \* the last reading of the clock

\* ------------------------------------------------------- program constants
STATE_TTL == 10 * 60
SWEEP_SLEEP == 60

None == "None"
Users == {"u1", "u2"}
WS == " "

\* the readings of the clock the model tells apart: the start, one
\* STATE_TTL after the start, and the end
Instants == {0, STATE_TTL, MaxTime}

\* ------------------------------------------------------------ JSON values
\* A JSON value found where a text is looked up: missing or null, a string
\* (a sequence of characters), or a number.
Absent == [k |-> "none", s |-> <<>>]
Num == [k |-> "num", s |-> <<>>]
Str(s) == [k |-> "str", s |-> s]

\* Python truthiness of such a value
Truthy(v) == v.k = "num" \/ (v.k = "str" /\ v.s # <<>>)

\* Python's "a or b"
Or(a, b) == IF Truthy(a) THEN a ELSE b

RECURSIVE LStrip(_)
LStrip(s) == IF s # <<>> /\ Head(s) = WS THEN LStrip(Tail(s)) ELSE s

RECURSIVE RStrip(_)
RStrip(s) ==
    IF s # <<>> /\ s[Len(s)] = WS THEN RStrip(SubSeq(s, 1, Len(s) - 1)) ELSE s

\* str.strip()
Strip(s) == RStrip(LStrip(s))

\* EMAIL_REGEX ^[^@\s]+@[^@\s]+\.[^@\s]+$ : position i holds the only "@",
\* position j a "." with a character between them and a character after it.
is_valid_email(e) ==
    \E i \in 1..Len(e), j \in 1..Len(e) :
        /\ e[i] = "@"
        /\ e[j] = "."
        /\ 1 < i
        /\ i + 1 < j
        /\ j < Len(e)
        /\ \A k \in 1..Len(e) : e[k] # WS /\ (k # i => e[k] # "@")

\* ------------------------------------------------------------- payloads
\* One message-like object.  sender and from hold the "id" of the nested
\* object (None when the key is missing or is no object); mtext and mbody
\* are message.text and message.body; isdict is FALSE for a JSON value
\* that is no object at all.
Payload(isdict, sender, from, mtext, mbody, text, body) ==
    [isdict |-> isdict, sender |-> sender, from |-> from,
     mtext |-> mtext, mbody |-> mbody, text |-> text, body |-> body]

\* lines 184-187
SenderOf(p) == IF p.sender # None THEN p.sender ELSE p.from

\* the top-level "body" is looked at before the top-level "text"
TextOf_body_first(p) ==
    Or(p.mtext, Or(p.mbody, Or(Absent, Or(p.body, p.text))))

\* lines 190-195: the chain message.text or message.body or None or
\* payload.text or payload.body, read from the left
TextOf(p) == Or(p.mtext, Or(p.mbody, Or(Absent, Or(p.text, p.body))))

\* a payload without a sender raises instead of returning
Normalize_raising(p) ==
    IF ~p.isdict \/ SenderOf(p) = None \/ TextOf(p).k = "num"
    THEN [outcome |-> "faulted", sender_id |-> SenderOf(p), text |-> <<>>]
    ELSE IF Strip(TextOf(p).s) = <<>>
         THEN [outcome |-> "ignored", sender_id |-> SenderOf(p), text |-> <<>>]
    ELSE [outcome |-> "message", sender_id |-> SenderOf(p),
          text |-> Strip(TextOf(p).s)]

\* a text that is empty after strip() is handled like any other text
Normalize_blank_handled(p) ==
    IF ~p.isdict THEN [outcome |-> "faulted", sender_id |-> None, text |-> <<>>]
    ELSE IF SenderOf(p) = None
         THEN [outcome |-> "rejected", sender_id |-> None, text |-> <<>>]
    ELSE IF TextOf(p).k = "num"
         THEN [outcome |-> "faulted", sender_id |-> SenderOf(p), text |-> <<>>]
    ELSE [outcome |-> "message", sender_id |-> SenderOf(p),
          text |-> Strip(TextOf(p).s)]

\* _handle_message_event up to line 205:
\* "faulted" (an exception leaves the function), "rejected" (no sender),
\* "ignored" (no text) or "message".
Normalize(p) ==
    IF ~p.isdict THEN [outcome |-> "faulted", sender_id |-> None, text |-> <<>>]
    ELSE IF SenderOf(p) = None
         THEN [outcome |-> "rejected", sender_id |-> None, text |-> <<>>]
    ELSE IF TextOf(p).k = "num"
         THEN [outcome |-> "faulted", sender_id |-> SenderOf(p), text |-> <<>>]
    ELSE IF Strip(TextOf(p).s) = <<>>
         THEN [outcome |-> "ignored", sender_id |-> SenderOf(p), text |-> <<>>]
    ELSE [outcome |-> "message", sender_id |-> SenderOf(p),
          text |-> Strip(TextOf(p).s)]

\* One element of entry.changes: keys is the set of the keys of its value,
\* messages the list under "messages", p the value read as a payload.
Change(keys, messages, p) == [keys |-> keys, messages |-> messages, p |-> p]

\* lines 155-166: the payloads one change hands to _handle_message_event
RECURSIVE UnbatchChanges(_)
UnbatchChanges(cs) ==
    IF cs = <<>> THEN <<>>
    ELSE LET c == Head(cs)
             here ==
                 IF "messages" \in c.keys THEN c.messages
                 ELSE IF "message" \in c.keys
                      THEN << Payload(TRUE, None, c.p.from, c.p.mtext,
                                      c.p.mbody, Absent, Absent) >>
                 ELSE IF "from" \in c.keys /\ "text" \in c.keys
                      THEN << c.p >>
                 ELSE <<>>
         IN  here \o UnbatchChanges(Tail(cs))

\* lines 148-166: the calls of _handle_message_event for a delivery, in order
RECURSIVE Unbatch(_)
Unbatch(entries) ==
    IF entries = <<>> THEN <<>>
    ELSE Head(entries).messaging \o UnbatchChanges(Head(entries).changes)
         \o Unbatch(Tail(entries))

\* a POST body: its entries, or nothing that json can read (nodata)
Entry(messaging, changes) == [messaging |-> messaging, changes |-> changes]

Delivery(entries) == [nodata |-> FALSE, entry |-> entries]

NoData == [nodata |-> TRUE, entry |-> <<>>]

\* --------------------------------------------------------------- state
VARIABLES
    user_state,   \* the dictionary user_state: user id -> session
    lock,         \* who holds _state_lock
    now,          \* what time.time() returns
    thr,          \* the webhook threads: one record for each thread slot
    cln,          \* the thread running _cleanup_loop
    inbox         \* the POSTs the platform has still to send, in order

vars == << user_state, lock, now, thr, cln, inbox >>

Free == -1
Cleaner == 0

\* a stored dictionary: a key that is missing is None (state) or {} (name)
Session(state, name, ts) == [state |-> state, name |-> name, ts |-> ts]

Get(store, u) == IF u \in DOMAIN store THEN {store[u]} ELSE {}

\* the conversation of a user in the store: nothing, or the state and the
\* name of the session
Conv(store, u) ==
    IF u \in DOMAIN store
    THEN {[state |-> store[u].state, name |-> store[u].name]}
    ELSE {}

\* the dictionary is written under every key it has
Put_every_key(store, u, s) == [x \in DOMAIN store \cup {u} |-> s]

Put(store, u, s) ==
    [x \in DOMAIN store \cup {u} |-> IF x = u THEN s ELSE store[x]]

\* the name is left out of the stored dictionary
set_state_no_name(store, user_id, state, name, t) ==
    Put(store, user_id, Session(state, {}, t))

\* every stored dictionary gets a "name" key, empty when none is given
set_state_always_named(store, user_id, state, name, t) ==
    Put(store, user_id,
        Session(state, IF name = {} THEN {<<>>} ELSE name, t))

\* lines 51-54
set_state(store, user_id, state, name, t) ==
    Put(store, user_id, Session(state, name, t))

\* the entry is not deleted
clear_state_kept(store, user_id) == store

\* lines 56-59
clear_state(store, user_id) ==
    [x \in DOMAIN store \ {user_id} |-> store[x]]

\* the session is written anew, without its name
touch_state_reset(store, user_id, t) ==
    Put(store, user_id, Session("expecting_email", {}, t))

\* lines 230-233: stamp the stored dictionary, or a new empty one
touch_state(store, user_id, t) ==
    IF user_id \in DOMAIN store
    THEN Put(store, user_id, [store[user_id] EXCEPT !.ts = t])
    ELSE Put(store, user_id, Session(None, {}, t))

\* line 69
Cutoff(t) == t - STATE_TTL

\* a session exactly STATE_TTL old is swept too
Expired_inclusive(s, cutoff) == s.ts <= cutoff

\* line 73
Expired(s, cutoff) == s.ts < cutoff

\* the sweep finds nothing to remove
Stale_nothing(store, cutoff) == {}

\* lines 72-75
Stale(store, cutoff) == {u \in DOMAIN store : Expired(store[u], cutoff)}

\* what one call of _handle_message_event did, kept when it returns:
\* pre and post are the sender's conversation (a set of at most one) when
\* the call read it at line 207 and when the call returned; sends the texts
\* handed to send_text; calls the arguments handed to save_to_google_sheet
\* and sink what that call did; disturbed says that another thread wrote
\* the sender's session in between.
NoCall ==
    [outcome |-> "message", sender_id |-> None, text |-> <<>>, pre |-> {},
     post |-> {}, sends |-> <<>>, calls |-> <<>>, sink |-> None,
     disturbed |-> FALSE]

\* a thread slot with no POST to handle
NoThread ==
    [pc |-> "idle", data |-> NoData, queue |-> <<>>, sender_id |-> None,
     text |-> <<>>, name |-> <<>>, resp |-> 0, lost |-> FALSE,
     cur |-> NoCall, log |-> <<>>]

Threads == DOMAIN thr

InFlight == {h \in Threads : thr[h].pc # "idle"}

\* the threads that have read the session of a user in users at line 207
\* and have not returned; a write by another thread disturbs their call
Readers(users, self) ==
    {h \in Threads \ {self} :
        /\ thr[h].sender_id \in users
        /\ thr[h].pc \notin {"idle", "dispatch", "L207", "R207", "done"}}

Disturb(t, users, self) ==
    [h \in DOMAIN t |->
        IF h \in Readers(users, self)
        THEN [t[h] EXCEPT !.cur.disturbed = TRUE]
        ELSE t[h]]

\* the call returns: its record goes to the log, the locals are dropped
Returned(r, store) ==
    [NoThread EXCEPT
        !.pc = "dispatch",
        !.data = r.data,
        !.queue = r.queue,
        !.lost = r.lost,
        !.log = Append(r.log, [r.cur EXCEPT !.post = Conv(store, r.sender_id)])]

\* a send that fails ends the handling of the POST
Sent_dropping_rest(r, kind, ok) ==
    [r EXCEPT !.cur.sends = Append(@, kind), !.lost = @ \/ ~ok,
              !.queue = IF ok THEN @ ELSE <<>>]

\* send_text has been called; lost remembers that a send of this POST failed
Sent(r, kind, ok) ==
    [r EXCEPT !.cur.sends = Append(@, kind), !.lost = @ \/ ~ok]

\* a new contact gets a session but no pitch
Route_no_pitch(found, state_name, text) ==
    IF ~found THEN "L109"
    ELSE IF state_name = "expecting_name" THEN "L220"
    ELSE IF state_name = "expecting_email"
         THEN IF ~is_valid_email(text) THEN "S228" ELSE "L236"
    ELSE "S252"

\* lines 211-252: where the call goes once it has read the session
Route(found, state_name, text) ==
    IF ~found THEN "S108"
    ELSE IF state_name = "expecting_name" THEN "L220"
    ELSE IF state_name = "expecting_email"
         THEN IF ~is_valid_email(text) THEN "S228" ELSE "L236"
    ELSE "S252"

\* lines 239-248: where the call goes after save_to_google_sheet, which
\* returns the status it got ("2xx", "non2xx") or raises ("raise")
AfterSave(result) == IF result = "raise" THEN "S244" ELSE "S116"

SinkResults == {"2xx", "non2xx", "raise"}

\* name and email change places
LeadRow_swapped(user_id, name, email) == << user_id, email, name >>

\* google_sheet.py lines 8-12: what is posted to the sheet
LeadRow(user_id, name, email) == << user_id, name, email >>

\* the failure text of line 244 is sent inside "with _state_lock"
LockBody_around_send ==
    [L207 |-> "R207", L109 |-> "W109", L220 |-> "W220", L230 |-> "W230",
     L236 |-> "R236", L245 |-> "S244", L119 |-> "D119", L253 |-> "W253"]

\* the program counters at which a thread waits for _state_lock, and where
\* it is once it holds it
LockBody ==
    [L207 |-> "R207", L109 |-> "W109", L220 |-> "W220", L230 |-> "W230",
     L236 |-> "R236", L245 |-> "D245", L119 |-> "D119", L253 |-> "W253"]

\* what each send_text call sends, and where the call goes next
\* ("RET": the call returns)
SendStep ==
    [S108 |-> [kind |-> "pitch", next |-> "L109"],
     S112 |-> [kind |-> "ask_email", next |-> "RET"],
     S228 |-> [kind |-> "invalid_email", next |-> "L230"],
     S244 |-> [kind |-> "save_failed", next |-> "L245"],
     S116 |-> [kind |-> "confirm", next |-> "S118"],
     S118 |-> [kind |-> "menu", next |-> "L119"],
     S252 |-> [kind |-> "fallback", next |-> "L253"]]

\* ------------------------------------------------------------- inputs
TName == << "A", "l" >>
TEmail == << "a", "@", "b", ".", "c" >>
TPadded == << WS >> \o TEmail \o << WS >>

Messenger(u, t) == Payload(TRUE, u, None, t, Absent, Absent, Absent)

Instagram(u, t) ==
    Change({"from", "message", "id"}, <<>>,
           Payload(TRUE, None, u, t, Absent, Absent, Absent))

\* POST bodies with one message: a text that is no email address from u1
\* or u2, an email address with blanks around it in the Instagram shape,
\* and two texts of u1 in one body
OneText(u) == Delivery(<< Entry(<< Messenger(u, Str(TName)) >>, <<>>) >>)

OneEmail == Delivery(<< Entry(<<>>, << Instagram("u1", Str(TPadded)) >>) >>)

TwoTexts ==
    Delivery(<< Entry(<< Messenger("u1", Str(TName)),
                         Messenger("u1", Str(TName)) >>, <<>>) >>)

\* the round trip: a first text, a name and an email address
RoundTrip ==
    Delivery(<< Entry(<< Messenger("u1", Str(TName)),
                         Messenger("u1", Str(TName)),
                         Messenger("u1", Str(TEmail)) >>, <<>>) >>)

\* a payload without a sender id next to a good one, in both orders, under
\* "messaging" and under "changes"
WithNoSender ==
    {Delivery(<< Entry(<< Messenger(None, Str(TName)),
                          Messenger("u1", Str(TName)) >>, <<>>) >>),
     Delivery(<< Entry(<< Messenger("u1", Str(TName)),
                          Messenger(None, Str(TName)) >>, <<>>) >>),
     Delivery(<< Entry(<<>>, << Instagram(None, Str(TName)),
                                Instagram("u1", Str(TName)) >>) >>),
     Delivery(<< Entry(<<>>, << Instagram("u1", Str(TName)),
                                Instagram(None, Str(TName)) >>) >>)}

\* a payload whose text is a number (str.strip raises) next to a good one
WithFault ==
    {Delivery(<< Entry(<< Messenger("u1", Num),
                          Messenger("u1", Str(TName)) >>, <<>>) >>),
     Delivery(<< Entry(<< Messenger("u1", Str(TName)),
                          Messenger("u1", Num) >>, <<>>) >>)}

\* a text of blanks
Blank == Delivery(<< Entry(<< Messenger("u1", Str(<< WS >>)) >>, <<>>) >>)

\* the round trip of u2, in the Instagram shape and with texts of its own
TOther == << "B", "o" >>
TOtherEmail == << "b", "@", "c", ".", "d" >>

OtherTrip ==
    Delivery(<< Entry(<<>>, << Instagram("u2", Str(TOther)),
                               Instagram("u2", Str(TOther)),
                               Instagram("u2", Str(TOtherEmail)) >>) >>)

\* message-like objects with and without "sender", "from", message.text,
\* message.body, "text" and "body", each text recognisable, some empty and
\* some with blanks around them
Shapes ==
    {Payload(TRUE, sender, from, mtext, mbody, text, body) :
        sender \in {None, "u1"},
        from \in {None, "u2"},
        mtext \in {Absent, Str(<<>>), Str(<< WS >>), Str(<< WS, "m" >>)},
        mbody \in {Absent, Str(<< "b" >>)},
        text \in {Absent, Str(<<>>), Str(<< "t", WS >>)},
        body \in {Absent, Str(<< "y" >>)}}

\* a POST with one message-like object under "messaging"
OneShape(p) == Delivery(<< Entry(<< p >>, <<>>) >>)

\* the POST bodies that arrive while another is being handled
Basic == {OneText("u1"), OneText("u2"), OneEmail, TwoTexts}

RECURSIVE SeqsUpTo(_, _)
SeqsUpTo(S, n) ==
    IF n = 0 THEN {<<>>}
    ELSE LET shorter == SeqsUpTo(S, n - 1)
         IN  shorter \cup {Append(q, x) : q \in shorter, x \in S}

\* what the platform sends in one behaviour: up to MaxDeliveries of the
\* basic bodies, or one of the others
Inboxes ==
    SeqsUpTo(Basic, MaxDeliveries)
    \cup {<< TwoTexts, Blank >>}
    \cup {<< d, OneText("u2") >> : d \in WithNoSender}
    \cup {<< RoundTrip, OtherTrip >>}
    \cup {<< OneShape(p) >> : p \in Shapes}
    \cup {<< d >> : d \in WithNoSender \cup WithFault
                          \cup {Blank, NoData, RoundTrip}}

\* -------------------------------------------------------------- actions
Init ==
    /\ user_state = [u \in {} |-> Session(None, {}, 0)]
    /\ lock = Free
    /\ now = 0
    /\ thr = [h \in 1..MaxInFlight |-> NoThread]
    /\ cln = [pc |-> "sleep", wake |-> SWEEP_SLEEP, at |-> 0, cutoff |-> 0,
              removed |-> {}]
    /\ inbox \in Inboxes

\* lines 139-143: a POST arrives and gets a thread (the first idle slot:
\* which one makes no difference)
Begin(h) ==
    /\ thr[h].pc = "idle"
    /\ \A g \in Threads : g < h => thr[g].pc # "idle"
    /\ inbox # <<>>
    /\ inbox' = Tail(inbox)
    /\ thr' = [thr EXCEPT ![h] =
                IF Head(inbox).nodata
                THEN [NoThread EXCEPT !.pc = "done", !.resp = 400]
                ELSE [NoThread EXCEPT !.pc = "dispatch",
                                      !.data = Head(inbox),
                                      !.queue = Unbatch(Head(inbox).entry)]]
    /\ UNCHANGED << user_state, lock, now, cln >>

\* the response has been sent and the thread ends
Exit(h) ==
    /\ thr[h].pc = "done"
    /\ thr' = [thr EXCEPT ![h] = NoThread]
    /\ UNCHANGED << user_state, lock, now, cln, inbox >>

\* line 171: every payload has been handled
Return(h) ==
    /\ thr[h].pc = "dispatch"
    /\ thr[h].queue = <<>>
    /\ thr' = [thr EXCEPT ![h].pc = "done", ![h].resp = 200]
    /\ UNCHANGED << user_state, lock, now, cln, inbox >>

\* lines 153-169 and 180-205: the next payload is handed to
\* _handle_message_event, which raises (the except of line 167 answers 500),
\* returns early, or goes on to read the sender's session
Dispatch(h) ==
    /\ thr[h].pc = "dispatch"
    /\ thr[h].queue # <<>>
    /\ LET r == thr[h]
           n == Normalize(Head(r.queue))
           call == [NoCall EXCEPT !.outcome = n.outcome,
                                  !.sender_id = n.sender_id,
                                  !.text = n.text]
           early == [call EXCEPT !.pre = Conv(user_state, n.sender_id),
                                 !.post = Conv(user_state, n.sender_id)]
       IN  thr' = [thr EXCEPT ![h] =
                IF n.outcome = "faulted"
                THEN [r EXCEPT !.pc = "done", !.resp = 500,
                               !.log = Append(r.log, early)]
                ELSE IF n.outcome \in {"rejected", "ignored"}
                THEN [r EXCEPT !.queue = Tail(r.queue),
                               !.log = Append(r.log, early)]
                ELSE [r EXCEPT !.pc = "L207", !.queue = Tail(r.queue),
                               !.sender_id = n.sender_id, !.text = n.text,
                               !.cur = call]]
    /\ UNCHANGED << user_state, lock, now, cln, inbox >>

\* "with _state_lock:" in a webhook thread
Acquire(h) ==
    /\ thr[h].pc \in DOMAIN LockBody
    /\ lock = Free
    /\ lock' = h
    /\ thr' = [thr EXCEPT ![h].pc = LockBody[thr[h].pc]]
    /\ UNCHANGED << user_state, now, cln, inbox >>

\* lines 207-208 and the branch taken at 211-227
ReadState(h) ==
    /\ thr[h].pc = "R207"
    /\ LET r == thr[h]
           s == Get(user_state, r.sender_id)
           found == s # {}
           state_name == IF found THEN user_state[r.sender_id].state ELSE None
       IN  thr' = [thr EXCEPT ![h] =
                [r EXCEPT !.cur.pre = Conv(user_state, r.sender_id),
                          !.pc = Route(found, state_name, r.text)]]
    /\ lock' = Free
    /\ UNCHANGED << user_state, now, cln, inbox >>

\* send_text (lines 85-99): the POST succeeds or fails; either way the
\* caller goes on
Send(h) ==
    /\ thr[h].pc \in DOMAIN SendStep
    /\ \E ok \in BOOLEAN :
        LET step == SendStep[thr[h].pc]
            r == Sent(thr[h], step.kind, ok)
        IN  thr' = [thr EXCEPT ![h] =
                 IF step.next = "RET" THEN Returned(r, user_state)
                 ELSE [r EXCEPT !.pc = step.next]]
    /\ UNCHANGED << user_state, lock, now, cln, inbox >>

\* a critical section that writes the store ends: the lock is released,
\* the calls of other threads for the same user are disturbed, and the
\* thread goes to next ("RET": the call returns)
Written(h, store, r, next) ==
    /\ user_state' = store
    /\ lock' = Free
    /\ thr' = Disturb([thr EXCEPT ![h] =
                         IF next = "RET" THEN Returned(r, store)
                         ELSE [r EXCEPT !.pc = next]],
                      {thr[h].sender_id}, h)
    /\ UNCHANGED << now, cln, inbox >>

\* line 109, in send_welcome_and_ask_name
SetExpectingName(h) ==
    /\ thr[h].pc = "W109"
    /\ Written(h, set_state(user_state, thr[h].sender_id, "expecting_name",
                            {}, now),
               thr[h], "RET")

\* lines 219-220
SetExpectingEmail(h) ==
    /\ thr[h].pc = "W220"
    /\ LET r == [thr[h] EXCEPT !.name = thr[h].text]
       IN  Written(h, set_state(user_state, r.sender_id, "expecting_email",
                                {r.name}, now),
                   r, "S112")

\* lines 230-233
KeepExpectingEmail(h) ==
    /\ thr[h].pc = "W230"
    /\ Written(h, touch_state(user_state, thr[h].sender_id, now), thr[h],
               "RET")

\* lines 236-237
ReadName(h) ==
    /\ thr[h].pc = "R236"
    /\ LET r == thr[h]
           s == Get(user_state, r.sender_id)
           name == IF s # {} /\ user_state[r.sender_id].name # {}
                   THEN CHOOSE n \in user_state[r.sender_id].name : TRUE
                   ELSE <<>>
       IN  thr' = [thr EXCEPT ![h] = [r EXCEPT !.name = name, !.pc = "C240"]]
    /\ lock' = Free
    /\ UNCHANGED << user_state, now, cln, inbox >>

\* lines 239-246 with save_to_google_sheet (google_sheet.py 6-14)
Save(h) ==
    /\ thr[h].pc = "C240"
    /\ \E result \in SinkResults :
        LET r == thr[h]
        IN  thr' = [thr EXCEPT ![h] =
                 [r EXCEPT !.cur.calls =
                               Append(@, LeadRow(r.sender_id, r.name, r.text)),
                           !.cur.sink = result,
                           !.pc = AfterSave(result)]]
    /\ UNCHANGED << user_state, lock, now, cln, inbox >>

\* line 245, and line 119 in confirm_saved_and_finish
ClearState(h) ==
    /\ thr[h].pc \in {"D245", "D119"}
    /\ Written(h, clear_state(user_state, thr[h].sender_id), thr[h], "RET")

\* line 253
Fallback(h) ==
    /\ thr[h].pc = "W253"
    /\ Written(h, set_state(user_state, thr[h].sender_id, "expecting_name",
                            {}, now),
               thr[h], "RET")

\* lines 68-70: the sleep ends and the cutoff is computed from the time
\* read then (at)
CleanupWake ==
    /\ cln.pc = "sleep"
    /\ now >= cln.wake
    /\ cln' = [cln EXCEPT !.pc = "L71", !.at = now, !.cutoff = Cutoff(now),
                          !.removed = {}]
    /\ UNCHANGED << user_state, lock, now, thr, inbox >>

\* line 71
CleanupAcquire ==
    /\ cln.pc = "L71"
    /\ lock = Free
    /\ lock' = Cleaner
    /\ cln' = [cln EXCEPT !.pc = "sweep"]
    /\ UNCHANGED << user_state, now, thr, inbox >>

\* lines 72-77, then the sleep of the next round
CleanupSweep ==
    /\ cln.pc = "sweep"
    /\ LET gone == Stale(user_state, cln.cutoff)
       IN  /\ user_state' = [x \in DOMAIN user_state \ gone |-> user_state[x]]
           /\ thr' = Disturb(thr, gone, Cleaner)
           /\ cln' = [cln EXCEPT !.pc = "sleep", !.removed = gone,
                                 !.wake = now + SWEEP_SLEEP]
    /\ lock' = Free
    /\ UNCHANGED << now, inbox >>

\* time passes
Tick ==
    /\ \E t \in Instants :
        /\ t > now
        /\ now' = t
    /\ UNCHANGED << user_state, lock, thr, cln, inbox >>

Next ==
    \/ \E h \in Threads : Begin(h)
    \/ \E h \in Threads : Exit(h)
    \/ \E h \in Threads : Return(h)
    \/ \E h \in Threads : Dispatch(h)
    \/ \E h \in Threads : Acquire(h)
    \/ \E h \in Threads : ReadState(h)
    \/ \E h \in Threads : Send(h)
    \/ \E h \in Threads : SetExpectingName(h)
    \/ \E h \in Threads : SetExpectingEmail(h)
    \/ \E h \in Threads : KeepExpectingEmail(h)
    \/ \E h \in Threads : ReadName(h)
    \/ \E h \in Threads : Save(h)
    \/ \E h \in Threads : ClearState(h)
    \/ \E h \in Threads : Fallback(h)
    \/ CleanupWake
    \/ CleanupAcquire
    \/ CleanupSweep
    \/ Tick

Spec == Init /\ [][Next]_vars

\* ------------------------------------------- the program left to itself
\* The behaviours in which every POST is delivered, every thread gets the
\* processor and the lock again and again, and the clock goes on after the
\* last POST has been answered.

\* a reading of the clock more than STATE_TTL after every write of a session
Horizon == MaxTime + STATE_TTL + 1

\* some of the POST sequences of Inboxes
LiveInboxes ==
    {<< TwoTexts, TwoTexts >>, << RoundTrip >>, << OneText("u2"), OneEmail >>,
     << NoData >>}

LiveInit ==
    /\ Init
    /\ inbox \in LiveInboxes

\* every POST has been answered and the sweep sleeps
Quiescent ==
    /\ inbox = <<>>
    /\ \A h \in Threads : thr[h].pc = "idle"
    /\ cln.pc = "sleep"

\* time passes after the last POST
TickQuiet ==
    /\ Quiescent
    /\ now < Horizon
    /\ now' = Horizon
    /\ UNCHANGED << user_state, lock, thr, cln, inbox >>

LiveNext ==
    \/ Next
    \/ TickQuiet

\* a step of webhook thread h, and a step of the thread of _cleanup_loop
ThreadStep(h) ==
    \/ Begin(h) \/ Exit(h) \/ Return(h) \/ Dispatch(h) \/ Acquire(h)
    \/ ReadState(h) \/ Send(h) \/ SetExpectingName(h)
    \/ SetExpectingEmail(h) \/ KeepExpectingEmail(h) \/ ReadName(h)
    \/ Save(h) \/ ClearState(h) \/ Fallback(h)

CleanupStep == CleanupWake \/ CleanupAcquire \/ CleanupSweep

\* the scheduler runs every thread that can take a step, the platform
\* delivers its POSTs, and time passes
Fairness ==
    /\ \A h \in 1..MaxInFlight : WF_vars(ThreadStep(h))
    /\ WF_vars(CleanupStep)
    /\ WF_vars(Tick \/ TickQuiet)

LiveSpec == LiveInit /\ [][LiveNext]_vars /\ Fairness

\* ---------------------------------------------------------- properties
\* the finished calls of _handle_message_event the threads remember
Finished ==
    UNION {{thr[h].log[i] : i \in 1..Len(thr[h].log)} : h \in Threads}

\* a call that handled a text and whose sender's session no other thread
\* wrote while it ran
Undisturbed(c) == c.outcome = "message" /\ ~c.disturbed

AwaitingName == [state |-> "expecting_name", name |-> {}]
AwaitingEmail(n) == [state |-> "expecting_email", name |-> {n}]

NameOf(conv) == CHOOSE n \in (CHOOSE c \in conv : TRUE).name : TRUE

InAwaitingEmail(conv) ==
    \E c \in conv : c.state = "expecting_email" /\ c.name # {}

\* one step of the store for user u that the state table allows: no change,
\* NEW -> AWAITING_NAME, AWAITING_NAME -> AWAITING_EMAIL, AWAITING_EMAIL ->
\* removed, or a removal by the sweep
AllowedStep(u) ==
    LET a == Conv(user_state, u)
        b == Conv(user_state', u)
    IN  \/ a = b
        \/ a = {} /\ b = {AwaitingName}
        \/ a = {AwaitingName} /\ InAwaitingEmail(b)
        \/ InAwaitingEmail(a) /\ b = {}
        \/ b = {} /\ cln.pc = "sweep" /\ cln'.pc = "sleep"

\* C1: in every behaviour, with threads and the sweep interleaved, a user's
\* session changes only NEW -> AWAITING_NAME -> AWAITING_EMAIL -> removed,
\* stays in AWAITING_EMAIL on an invalid email, or is removed by the sweep.
C1_OnlyTableTransitions == [][\A u \in Users : AllowedStep(u)]_vars

\* the case of C2: a valid email arrives in AWAITING_EMAIL with a name
\* stored, and the Lead Sink answers 2xx
ValidEmailCase(c) ==
    /\ Undisturbed(c)
    /\ InAwaitingEmail(c.pre)
    /\ is_valid_email(c.text)

\* C2: a valid email T in AWAITING_EMAIL with name N and a Lead Sink that
\* succeeds: afterwards the user has no session, the Lead Sink was called
\* exactly once, with (user_id, N, T), and one or two texts were sent, the
\* first of them the confirmation.
C2_ValidEmailCaptured ==
    \A c \in Finished :
        (ValidEmailCase(c) /\ c.sink = "2xx") =>
            /\ c.post = {}
            /\ c.calls = << << c.sender_id, NameOf(c.pre), c.text >> >>
            /\ c.sends \in {<< "confirm" >>, << "confirm", "menu" >>}

C2_Witness ==
    \E c \in Finished :
        /\ ValidEmailCase(c) /\ c.sink = "2xx"
        /\ c.post = {}
        /\ c.calls = << << c.sender_id, TName, TEmail >> >>

\* C3: a valid email in AWAITING_EMAIL and a Lead Sink call that fails, by
\* a network error or by a status that is not 2xx: the user is sent the
\* failure text and no confirmation, the call is not repeated, and the
\* session is removed.
C3_SinkFailureReported ==
    \A c \in Finished :
        (ValidEmailCase(c) /\ c.sink \in {"non2xx", "raise"}) =>
            /\ c.sends = << "save_failed" >>
            /\ Len(c.calls) = 1
            /\ c.post = {}

\* C4: a text that is not a valid email, in AWAITING_EMAIL: the session
\* stays in AWAITING_EMAIL with the same name, exactly one text (the retry
\* prompt) is sent, and the Lead Sink is not called.
C4_InvalidEmailRetries ==
    \A c \in Finished :
        (Undisturbed(c) /\ InAwaitingEmail(c.pre) /\ ~is_valid_email(c.text)) =>
            /\ c.post = c.pre
            /\ c.sends = << "invalid_email" >>
            /\ c.calls = <<>>

C4_Witness ==
    \E c \in Finished :
        /\ Undisturbed(c)
        /\ c.pre = {AwaitingEmail(TName)}
        /\ c.text = TName
        /\ c.post = {AwaitingEmail(TName)}
        /\ c.sends = << "invalid_email" >>

\* C5: any text of a user who has no session: the user gets a session in
\* AWAITING_NAME with no name, exactly one text (the pitch) is sent, and
\* the Lead Sink is not called.
C5_NewContactGreeted ==
    \A c \in Finished :
        (c.outcome = "message" /\ c.pre = {}) =>
            /\ c.post = {AwaitingName}
            /\ c.sends = << "pitch" >>
            /\ c.calls = <<>>

C5_Witness ==
    \E c \in Finished :
        /\ c.outcome = "message" /\ c.pre = {}
        /\ c.post = {AwaitingName}
        /\ c.sends = << "pitch" >>

\* C6: any text T in AWAITING_NAME: the session moves to AWAITING_EMAIL
\* with the name T as sent, exactly one text (the request for the email) is
\* sent, and the Lead Sink is not called.
C6_NameStoredVerbatim ==
    \A c \in Finished :
        (Undisturbed(c) /\ c.pre = {AwaitingName}) =>
            /\ c.post = {AwaitingEmail(c.text)}
            /\ c.sends = << "ask_email" >>
            /\ c.calls = <<>>

C6_Witness ==
    \E c \in Finished :
        /\ Undisturbed(c) /\ c.pre = {AwaitingName}
        /\ c.text = TEmail
        /\ c.post = {AwaitingEmail(TEmail)}

\* three calls in a row for one user, each finding what the one before
\* left: a first text of a user without a session, a name, an email
RoundTripAt(h, i) ==
    LET a == thr[h].log[i]
        b == thr[h].log[i + 1]
        c == thr[h].log[i + 2]
    IN  /\ Undisturbed(a) /\ Undisturbed(b) /\ Undisturbed(c)
        /\ a.sender_id = b.sender_id /\ b.sender_id = c.sender_id
        /\ a.pre = {}
        /\ b.pre = a.post
        /\ c.pre = b.post
        /\ is_valid_email(c.text)
        /\ c.sink = "2xx"

\* C7: a start text, a name N and a valid email E of a user without a
\* session, handled one after another with a Lead Sink that succeeds: the
\* user has no session at the end and the Lead Sink was called exactly
\* once, with (user_id, N, E).
C7_RoundTrip ==
    \A h \in Threads : \A i \in 1..(Len(thr[h].log) - 2) :
        RoundTripAt(h, i) =>
            LET a == thr[h].log[i]
                b == thr[h].log[i + 1]
                c == thr[h].log[i + 2]
            IN  /\ c.post = {}
                /\ a.calls \o b.calls \o c.calls
                       = << << c.sender_id, b.text, c.text >> >>

C7_Witness ==
    \E h \in Threads :
        /\ Len(thr[h].log) = 3
        /\ RoundTripAt(h, 1)
        /\ thr[h].log[3].post = {}
        /\ thr[h].log[3].calls = << << "u1", TName, TEmail >> >>

\* C8: after a sweep, every session last touched more than STATE_TTL
\* before the time the sweep read is gone, and every other session is
\* still there with its state, name and last_touched.
C8_SweepEvictsExactlyStale ==
    [][(cln.pc = "sweep" /\ cln'.pc = "sleep") =>
          /\ DOMAIN user_state' \subseteq DOMAIN user_state
          /\ \A u \in DOMAIN user_state :
                IF user_state[u].ts + STATE_TTL < cln.at
                THEN u \notin DOMAIN user_state'
                ELSE u \in DOMAIN user_state' /\ user_state'[u] = user_state[u]
      ]_vars

C8_Witness ==
    /\ cln.pc = "sleep"
    /\ cln.removed # {}
    /\ \E u \in DOMAIN user_state : user_state[u].ts <= cln.at

\* C9: a POST with a body is answered with a success status, also when
\* handling one of its payloads raises.
C9_AlwaysAcknowledged ==
    \A h \in Threads :
        (thr[h].pc = "done" /\ ~thr[h].data.nodata) => thr[h].resp = 200

\* a thread whose POST held one payload, which it has handled
Alone(g) ==
    /\ Len(Unbatch(thr[g].data.entry)) = 1
    /\ Len(thr[g].log) = 1

\* two calls in the same case: the same session found, the same text
SameCase(a, b) ==
    /\ Undisturbed(a) /\ Undisturbed(b)
    /\ a.pre = b.pre /\ a.text = b.text /\ a.sink = b.sink

Args(c) == [k \in 1..Len(c.calls) |-> << c.calls[k][2], c.calls[k][3] >>]

SameEffect(a, b) ==
    a.post = b.post /\ a.sends = b.sends /\ Args(a) = Args(b)

\* the POST of a finished thread held a payload without a sender id and a
\* good one: it was answered 200, the payload without a sender sent and
\* called nothing, and the good one did what a payload alone in its POST
\* does in the same case
SenderlessBatchDone(h) ==
    /\ thr[h].resp = 200
    /\ \E i, j \in 1..Len(thr[h].log) :
        LET bad == thr[h].log[i]
            good == thr[h].log[j]
        IN  /\ Len(thr[h].log) = 2
            /\ bad.outcome = "rejected"
            /\ bad.sends = <<>> /\ bad.calls = <<>>
            /\ good.outcome = "message"
            /\ good.sender_id = "u1" /\ good.text = TName
            /\ \A g \in Threads :
                  (Alone(g) /\ SameCase(thr[g].log[1], good))
                      => SameEffect(thr[g].log[1], good)

\* the step in which thread h finishes a payload without a sender id
RejectedStep(h) ==
    /\ Len(thr'[h].log) = Len(thr[h].log) + 1
    /\ thr'[h].log[Len(thr'[h].log)].outcome = "rejected"

\* C10: a POST with one payload without a sender id and one good payload,
\* in either order, under "messaging" or under "changes": the payload
\* without a sender sends nothing, changes no session and raises nothing,
\* and the good one makes the transition and the sends it makes when it is
\* delivered alone.
C10_SenderlessSkipped ==
    /\ [](\A h \in Threads :
            (thr[h].data \in WithNoSender /\ thr[h].pc = "done")
                => SenderlessBatchDone(h))
    /\ [][\A h \in Threads :
            RejectedStep(h) => user_state' = user_state /\ thr'[h].pc # "done"]_vars

C10_Witness ==
    \E h, g \in Threads :
        /\ thr[h].data \in WithNoSender /\ thr[h].pc = "done"
        /\ thr[h].resp = 200
        /\ Alone(g)
        /\ \E j \in 1..2 :
            /\ SameCase(thr[g].log[1], thr[h].log[j])
            /\ SameEffect(thr[g].log[1], thr[h].log[j])

\* thread h is inside a call of _handle_message_event for user u that has
\* the lock to read u's session, or has read it, and has not returned
Handling(h, u) ==
    /\ thr[h].sender_id = u
    /\ thr[h].pc \notin {"idle", "dispatch", "L207", "done"}

\* C11: the messages of one user are handled one at a time: while one
\* thread has read the user's session and has not finished the message, no
\* other thread reads or writes the session of that user.
C11_OneCallPerUser ==
    \A u \in Users : \A h, g \in Threads :
        (Handling(h, u) /\ Handling(g, u)) => h = g

\* the payloads of a sequence of POSTs
RECURSIVE PayloadsOf(_)
PayloadsOf(ds) ==
    IF ds = <<>> THEN <<>>
    ELSE Unbatch(Head(ds).entry) \o PayloadsOf(Tail(ds))

\* the texts user u sends in the POSTs ds, as line 201 leaves them
TextsIn(ds, u) ==
    LET ps == PayloadsOf(ds)
        mine == {k \in 1..Len(ps) :
                    /\ Normalize(ps[k]).outcome = "message"
                    /\ Normalize(ps[k]).sender_id = u}
    IN  {Normalize(ps[k]).text : k \in mine}

\* the texts each user sends in any of the behaviours
OwnTexts == [u \in Users |-> UNION {TextsIn(ds, u) : ds \in Inboxes}]

\* the calls of _handle_message_event that have returned or are running
Calls == Finished \cup {thr[h].cur : h \in Threads}

\* what is stored and what is posted to the sheet for a user comes from
\* that user's messages (a name that was not found is posted as the empty
\* text, line 237)
OwnValues ==
    /\ \A u \in DOMAIN user_state : user_state[u].name \subseteq OwnTexts[u]
    /\ \A c \in Calls : \A k \in 1..Len(c.calls) :
          /\ c.calls[k][1] = c.sender_id
          /\ c.calls[k][2] \in OwnTexts[c.sender_id] \cup {<<>>}
          /\ c.calls[k][3] \in OwnTexts[c.sender_id]

\* a step that changes the session of u is a step of the sweep or of a
\* thread that handles a message of u
OwnStep(u) ==
    Get(user_state', u) # Get(user_state, u) =>
        \/ cln.pc = "sweep" /\ cln'.pc = "sleep"
        \/ \E h \in Threads :
              thr[h].sender_id = u /\ thr'[h].pc # thr[h].pc

\* C12: whatever the interleaving of the POSTs of two users, handling a
\* message of one user never creates, changes or removes the session of
\* the other, and the name stored for a user and the rows posted to the
\* sheet for a user hold only that user's id and texts.
C12_NoCrossUserBleed ==
    /\ []OwnValues
    /\ [][\A u \in Users : OwnStep(u)]_vars

C12_Witness ==
    \E h, g \in Threads :
        /\ thr[h].cur.calls = << << "u1", TName, TEmail >> >>
        /\ thr[g].cur.calls = << << "u2", TOther, TOtherEmail >> >>

\* the program counters at which a thread is inside send_text or inside
\* save_to_google_sheet
OnTheNetwork == DOMAIN SendStep \cup {"C240"}

\* the program counters of the critical sections: one read, write or
\* delete of user_state each
InStore == {LockBody[l] : l \in DOMAIN LockBody}

\* who holds the lock is in a critical section, and nobody on the network
\* holds it
LockOnlyAroundStore ==
    /\ \A h \in Threads :
          /\ thr[h].pc \in OnTheNetwork => lock # h
          /\ lock = h => thr[h].pc \in InStore
    /\ lock = Cleaner => cln.pc = "sweep"

\* the next step of the holder of the lock gives it back
ReleasedAtOnce ==
    /\ \A h \in Threads :
          (lock = h /\ thr'[h].pc # thr[h].pc) => lock' = Free
    /\ (lock = Cleaner /\ cln'.pc # cln.pc) => lock' = Free

\* C13: no thread holds _state_lock while it is in send_text or in
\* save_to_google_sheet; the lock is held for one read, write or delete of
\* the store, or for one pass of the sweep, and given back with it.
C13_LockNotHeldOnNetwork ==
    /\ []LockOnlyAroundStore
    /\ [][ReleasedAtOnce]_vars

C13_Witness ==
    \E h, g \in Threads :
        /\ h # g
        /\ lock = h
        /\ thr[h].pc \in InStore
        /\ thr[g].pc = "C240"

\* C14: in every reachable state, a stored session has a name exactly when
\* its state is AWAITING_EMAIL (expecting_email).
C14_NameIffAwaitingEmail ==
    \A u \in DOMAIN user_state :
        (user_state[u].name # {}) <=> (user_state[u].state = "expecting_email")

C14_Witness ==
    \E u, v \in DOMAIN user_state :
        /\ user_state[u].state = "expecting_email"
        /\ user_state[u].name = {TName}
        /\ user_state[v].state = "expecting_name"
        /\ user_state[v].name = {}

\* the first of the values that is a text with at least one character
RECURSIVE FirstNonEmpty(_)
FirstNonEmpty(vs) ==
    IF vs = <<>> THEN <<>>
    ELSE IF Head(vs).k = "str" /\ Head(vs).s # <<>> THEN Head(vs).s
    ELSE FirstNonEmpty(Tail(vs))

\* what a message-like object resolves to: sender.id, else from.id; the
\* first non-empty of message.text, message.body, text and body, trimmed
Resolved(p) ==
    LET sender_id == IF p.sender # None THEN p.sender ELSE p.from
        text == Strip(FirstNonEmpty(<< p.mtext, p.mbody, p.text, p.body >>))
    IN  [outcome |-> IF sender_id = None THEN "rejected"
                     ELSE IF text = <<>> THEN "ignored"
                     ELSE "message",
         sender_id |-> sender_id,
         text |-> IF sender_id = None THEN <<>> ELSE text]

\* an object whose texts are strings or missing
Textual(p) ==
    /\ p.isdict
    /\ \A v \in {p.mtext, p.mbody, p.text, p.body} : v.k # "num"

\* the i-th call of _handle_message_event of thread h got the i-th
\* message-like object of the POST
Handled(h, i) == Unbatch(thr[h].data.entry)[i]

ResolvedAs(c, p) ==
    /\ c.outcome = Resolved(p).outcome
    /\ c.sender_id = Resolved(p).sender_id
    /\ c.text = Resolved(p).text

\* C15: a message-like object resolves to the sender sender.id, or from.id
\* when there is no sender.id, and to the text that is the first non-empty
\* of message.text, message.body, "text" and "body", trimmed; the Messenger
\* shape under "messaging" and the Instagram shape under "changes" resolve
\* to their sender and text.
C15_ResolutionOrder ==
    \A h \in Threads :
        /\ \A i \in 1..Len(thr[h].log) :
              Textual(Handled(h, i)) => ResolvedAs(thr[h].log[i], Handled(h, i))
        /\ \A u \in Users :
              (thr[h].data = OneText(u) /\ thr[h].log # <<>>) =>
                  thr[h].log[1].sender_id = u /\ thr[h].log[1].text = TName
        /\ (thr[h].data = OneEmail /\ thr[h].log # <<>>) =>
              thr[h].log[1].sender_id = "u1" /\ thr[h].log[1].text = TEmail

C15_Witness ==
    \E h \in Threads :
        /\ thr[h].data =
               OneShape(Payload(TRUE, None, "u2", Str(<<>>), Absent,
                                Str(<< "t", WS >>), Str(<< "y" >>)))
        /\ Len(thr[h].log) = 1
        /\ thr[h].log[1].outcome = "message"
        /\ thr[h].log[1].sender_id = "u2"
        /\ thr[h].log[1].text = << "t" >>

\* the step in which a send_text of thread h fails, the first time in its
\* POST: the text was handed to send_text once, the call goes where it goes
\* after a send that succeeds, and nothing else changes
FailedSendStep(h) ==
    (thr[h].pc \in DOMAIN SendStep /\ ~thr[h].lost /\ thr'[h].lost) =>
        LET step == SendStep[thr[h].pc]
        IN  /\ user_state' = user_state
            /\ thr'[h].queue = thr[h].queue
            /\ thr'[h].resp = thr[h].resp
            /\ IF step.next = "RET"
               THEN /\ thr'[h].pc = "dispatch"
                    /\ Len(thr'[h].log) = Len(thr[h].log) + 1
                    /\ thr'[h].log[Len(thr'[h].log)].sends
                           = Append(thr[h].cur.sends, step.kind)
               ELSE /\ thr'[h].pc = step.next
                    /\ thr'[h].cur.sends = Append(thr[h].cur.sends, step.kind)

\* no message-like object of the POST of thread h raises
NoFaultIn(h) ==
    \A i \in 1..Len(Unbatch(thr[h].data.entry)) :
        Normalize(Unbatch(thr[h].data.entry)[i]).outcome # "faulted"

\* a POST in which a send failed is handled to its end, and calls in the
\* same case have the same effect whether a send failed or not
FailedSendHarmless ==
    /\ \A h \in Threads :
          (thr[h].pc = "done" /\ thr[h].lost /\ NoFaultIn(h)) =>
              /\ thr[h].resp = 200
              /\ Len(thr[h].log) = Len(Unbatch(thr[h].data.entry))
    /\ \A a, b \in Finished : SameCase(a, b) => SameEffect(a, b)

\* C16: a send_text that fails is not repeated and ends nothing: the
\* session is written as after a send that succeeds, and the message-like
\* objects that follow in the same POST are handled.
C16_SendFailureTolerated ==
    /\ []FailedSendHarmless
    /\ [][\A h \in Threads : FailedSendStep(h)]_vars

C16_Witness ==
    \E h \in Threads :
        /\ thr[h].data = TwoTexts
        /\ thr[h].lost
        /\ Len(thr[h].log) = 1
        /\ thr[h].log[1].sends = << "pitch" >>
        /\ thr[h].log[1].post = {AwaitingName}
        /\ thr[h].pc = "L220"

\* user u sends nothing more: no message of u waits in a POST and no
\* thread handles one
Quiet(u) ==
    /\ \A i \in 1..Len(PayloadsOf(inbox)) :
          Normalize(PayloadsOf(inbox)[i]).sender_id # u
    /\ \A h \in Threads :
          /\ thr[h].sender_id # u
          /\ \A i \in 1..Len(thr[h].queue) :
                Normalize(thr[h].queue[i]).sender_id # u

\* a step that removes the session of u is the end of a lead capture of u
\* (line 119 after the confirmation, line 245 after the failure text) or
\* the sweep, more than STATE_TTL after the session was last written
RemovedRightly(u) ==
    (u \in DOMAIN user_state /\ u \notin DOMAIN user_state') =>
        \/ /\ cln.pc = "sweep" /\ cln'.pc = "sleep"
           /\ user_state[u].ts + STATE_TTL < cln.at
        \/ \E h \in Threads :
              /\ thr[h].sender_id = u
              /\ thr[h].pc \in {"D119", "D245"}
              /\ thr'[h].pc # thr[h].pc
              /\ thr[h].cur.calls # <<>>

\* C17: every session is destroyed in the end: when the threads and the
\* sweep are scheduled fairly and time passes, the session of a user who
\* sends nothing more is eventually gone; and a session is removed only at
\* the end of a lead capture or by the sweep after STATE_TTL.
C17_SessionsEventuallyGone ==
    /\ \A u \in Users :
          (Quiet(u) /\ u \in DOMAIN user_state) ~> (u \notin DOMAIN user_state)
    /\ [][\A u \in Users : RemovedRightly(u)]_vars

C17_Witness ==
    /\ now = Horizon
    /\ Quiet("u1")
    /\ "u1" \in cln.removed
    /\ "u1" \notin DOMAIN user_state

\* a message-like object without a sender id, or with a sender id and no
\* text left after trimming
Unprocessable(p) ==
    Textual(p) /\ Resolved(p).outcome \in {"rejected", "ignored"}

\* the calls for such objects have sent nothing and called nothing
SkippedQuietly ==
    \A h \in Threads : \A i \in 1..Len(thr[h].log) :
        Unprocessable(Handled(h, i)) =>
            /\ thr[h].log[i].outcome = Resolved(Handled(h, i)).outcome
            /\ thr[h].log[i].sends = <<>>
            /\ thr[h].log[i].calls = <<>>

\* the step of thread h that hands such an object to _handle_message_event
\* is the whole call: it returns, and the store and the lock are as before
SkippedStep(h) ==
    (/\ thr[h].pc = "dispatch"
     /\ thr[h].queue # <<>>
     /\ Unprocessable(Head(thr[h].queue))
     /\ thr'[h] # thr[h]) =>
        /\ user_state' = user_state
        /\ lock' = lock
        /\ thr'[h].pc = "dispatch"
        /\ thr'[h].queue = Tail(thr[h].queue)
        /\ Len(thr'[h].log) = Len(thr[h].log) + 1

\* C18: handling a message-like object without a sender id (rejected), or
\* with a sender id and a text that is empty after trimming (ignored),
\* leaves the whole store as it was, state, name and last_touched of the
\* sender included, and sends nothing and calls nothing.
C18_UnprocessableLeavesNoTrace ==
    /\ []SkippedQuietly
    /\ [][\A h \in Threads : SkippedStep(h)]_vars

C18_Witness ==
    \E h \in Threads :
        /\ thr[h].data = Blank
        /\ Len(thr[h].log) = 1
        /\ thr[h].log[1].outcome = "ignored"
        /\ thr[h].log[1].sender_id = "u1"
        /\ thr[h].log[1].pre = {AwaitingEmail(TName)}
        /\ thr[h].log[1].post = {AwaitingEmail(TName)}
        /\ "u1" \in DOMAIN user_state

\* C19: in every reachable state, every stored session has the state
\* expecting_name (AWAITING_NAME) or expecting_email (AWAITING_EMAIL), and
\* no thread is in the fallback branch of lines 251-253.
C19_OnlyKnownStates ==
    /\ \A u \in DOMAIN user_state :
          user_state[u].state \in {"expecting_name", "expecting_email"}
    /\ \A h \in Threads : thr[h].pc \notin {"S252", "L253", "W253"}

\* C20: every row posted to the sheet, (user_id, name, email), has an
\* email that is_valid_email accepts and the name stored for the user when
\* the call read the session, a text that is not empty.
C20_LeadRowsComplete ==
    \A c \in Calls : \A k \in 1..Len(c.calls) :
        /\ is_valid_email(c.calls[k][3])
        /\ c.calls[k][2] # <<>>
        /\ \E s \in c.pre : c.calls[k][2] \in s.name
====
